---- MODULE Spec2Model ----
(***************************************************************************)
(* Resort Map View (frontend/src/app/page.tsx): a fixed collection of      *)
(* lifts, one piece of React state (selectedLift), and three presentations *)
(* derived from it on every render: the SVG path overlay, the markers with *)
(* their hover cards, and the list of selectable entries.                  *)
(*                                                                         *)
(* Strings built by template literals / Array.join are modelled as         *)
(* sequences of whitespace-separated tokens.                               *)
(***************************************************************************)
EXTENDS Integers, Sequences, FiniteSets, TLC

VARIABLES
    lifts,         \* the collection rendered (const lifts, page.tsx 19-47)
    selectedLift,  \* useState<string | null> (page.tsx 68)
    hoverOpen,     \* ids of the lifts whose hover card is open (page.tsx 113-146)
    clicked,       \* history: the ids passed to setSelectedLift, in order
    view           \* the tree returned by the last render (page.tsx 74-184)

vars == <<lifts, selectedLift, hoverOpen, clicked, view>>

(* ------------------------------ bounds --------------------------------- *)

\* Number of list-entry clicks explored in one session.
MaxClicks == 3

\* Longest route drawn for a lift of the generalised collection.
MaxLen == 2

(* ---------------------------- data model ------------------------------- *)

Status == {"open", "closed", "hold"}

LiftType == {"express", "quad", "magic-carpet"}

Difficulty == {"beginner", "intermediate", "advanced"}

\* Faulty variant: the third lift reuses the id of the second.
SeedLifts_DuplicateId ==
    << [id |-> "1", name |-> "Blue Mountain Express", status |-> "open",
        type |-> "express", difficulty |-> "intermediate",
        path |-> << <<120, 150>>, <<180, 80>>, <<250, 50>> >>, waitTime |-> 5],
       [id |-> "2", name |-> "Summit Quad", status |-> "open",
        type |-> "quad", difficulty |-> "advanced",
        path |-> << <<250, 200>>, <<300, 150>>, <<350, 100>> >>, waitTime |-> 12],
       [id |-> "2", name |-> "Beginner Magic Carpet", status |-> "hold",
        type |-> "magic-carpet", difficulty |-> "beginner",
        path |-> << <<180, 300>>, <<180, 250>> >>, waitTime |-> 3] >>

\* const lifts: Lift[]; points are <<x, y>>, sequences are 1-based.
SeedLifts ==
    << [id |-> "1", name |-> "Blue Mountain Express", status |-> "open",
        type |-> "express", difficulty |-> "intermediate",
        path |-> << <<120, 150>>, <<180, 80>>, <<250, 50>> >>, waitTime |-> 5],
       [id |-> "2", name |-> "Summit Quad", status |-> "open",
        type |-> "quad", difficulty |-> "advanced",
        path |-> << <<250, 200>>, <<300, 150>>, <<350, 100>> >>, waitTime |-> 12],
       [id |-> "3", name |-> "Beginner Magic Carpet", status |-> "hold",
        type |-> "magic-carpet", difficulty |-> "beginner",
        path |-> << <<180, 300>>, <<180, 250>> >>, waitTime |-> 3] >>

statusColors ==
    [open   |-> "bg-emerald-500 text-white",
     closed |-> "bg-red-500 text-white",
     hold   |-> "bg-amber-500 text-white"]

difficultyColors ==
    [beginner     |-> "bg-green-100 text-green-800",
     intermediate |-> "bg-blue-100 text-blue-800",
     advanced     |-> "bg-black text-white"]

\* Faulty variant: the table lacks the 'magic-carpet' key.
typeIcons_NoCarpet ==
    ("express" :> "U+1F6A1") @@ ("quad" :> "U+1F6A0")

\* The glyphs are named by their code points.
typeIcons ==
    ("express" :> "U+1F6A1") @@ ("quad" :> "U+1F6A0") @@ ("magic-carpet" :> "U+2728")

(* --------------------------- JS primitives ----------------------------- *)

\* useState<string | null>: null is the empty option, an id is <<id>>.
NULL == <<>>

Some(id) == <<id>>

\* selectedLift === lift.id
StrictEq(sel, id) == sel = Some(id)

UNDEFINED == "undefined"

\* table[key] on a plain object: undefined when the key is absent.
Lookup(table, key) == IF key \in DOMAIN table THEN table[key] ELSE UNDEFINED

\* String.prototype.toUpperCase over the strings the badges show.
toUpperCase(s) ==
    CASE s = "open"         -> "OPEN"
      [] s = "closed"       -> "CLOSED"
      [] s = "hold"         -> "HOLD"
      [] s = "beginner"     -> "BEGINNER"
      [] s = "intermediate" -> "INTERMEDIATE"
      [] s = "advanced"     -> "ADVANCED"
      [] OTHER              -> s

\* point.join(' '): the two coordinates as decimal tokens.
PointJoin(point) == <<ToString(point[1]), ToString(point[2])>>

\* Array.prototype.join(' L ') over already tokenised items.
RECURSIVE JoinL(_)
JoinL(items) ==
    IF Len(items) = 0 THEN <<>>
    ELSE IF Len(items) = 1 THEN items[1]
    ELSE items[1] \o <<"L">> \o JoinL(Tail(items))

(* ------------------------------ render --------------------------------- *)

\* Faulty variant: the points are joined in reverse order.
drawLiftLine_Reversed(points) ==
    <<"M">> \o JoinL([i \in 1..Len(points) |-> PointJoin(points[Len(points) + 1 - i])])

\* `M ${points.map(point => point.join(' ')).join(' L ')}`
drawLiftLine(points) ==
    <<"M">> \o JoinL([i \in 1..Len(points) |-> PointJoin(points[i])])

\* Faulty variant: every line is emphasized once anything is selected.
PathElement_AnySelection(lift, sel) ==
    [key             |-> lift.id,
     d               |-> drawLiftLine(lift.path),
     stroke          |-> IF sel # NULL THEN "#0f172a" ELSE "#64748b",
     strokeWidth     |-> IF sel # NULL THEN 4 ELSE 2,
     strokeDasharray |-> IF lift.status = "closed" THEN "5,5" ELSE "none"]

\* Faulty variant: a selected closed lift is drawn solid.
PathElement_DashWhenMuted(lift, sel) ==
    [key             |-> lift.id,
     d               |-> drawLiftLine(lift.path),
     stroke          |-> IF StrictEq(sel, lift.id) THEN "#0f172a" ELSE "#64748b",
     strokeWidth     |-> IF StrictEq(sel, lift.id) THEN 4 ELSE 2,
     strokeDasharray |-> IF lift.status = "closed" /\ ~StrictEq(sel, lift.id)
                         THEN "5,5" ELSE "none"]

\* <path> of the SVG layer.
PathElement(lift, sel) ==
    [key             |-> lift.id,
     d               |-> drawLiftLine(lift.path),
     stroke          |-> IF StrictEq(sel, lift.id) THEN "#0f172a" ELSE "#64748b",
     strokeWidth     |-> IF StrictEq(sel, lift.id) THEN 4 ELSE 2,
     strokeDasharray |-> IF lift.status = "closed" THEN "5,5" ELSE "none"]

\* <HoverCardContent>: present in the tree only while the card is open.
DetailPanel(lift) ==
    [name            |-> lift.name,
     statusBadge     |-> toUpperCase(lift.status),
     statusClass     |-> Lookup(statusColors, lift.status),
     difficultyBadge |-> toUpperCase(lift.difficulty),
     difficultyClass |-> Lookup(difficultyColors, lift.difficulty),
     waitText        |-> <<"Wait time:", ToString(lift.waitTime), "minutes">>]

\* Faulty variant: the selected marker keeps the baseline size and order.
Marker_NeverRaised(lift, sel, open) ==
    [key   |-> lift.id,
     scale |-> "scale-100 z-10",
     left  |-> lift.path[1][1],
     top   |-> lift.path[1][2],
     color |-> Lookup(statusColors, lift.status),
     glyph |-> Lookup(typeIcons, lift.type),
     panel |-> IF lift.id \in open THEN <<DetailPanel(lift)>> ELSE <<>>]

\* <HoverCard> with its trigger (the marker) and its content.
Marker(lift, sel, open) ==
    [key   |-> lift.id,
     scale |-> IF StrictEq(sel, lift.id) THEN "scale-150 z-20" ELSE "scale-100 z-10",
     left  |-> lift.path[1][1],
     top   |-> lift.path[1][2],
     color |-> Lookup(statusColors, lift.status),
     glyph |-> Lookup(typeIcons, lift.type),
     panel |-> IF lift.id \in open THEN <<DetailPanel(lift)>> ELSE <<>>]

\* <Button> of the lift list.
ListEntry(lift, sel) ==
    [key             |-> lift.id,
     variant         |-> IF StrictEq(sel, lift.id) THEN "default" ELSE "outline",
     ring            |-> IF StrictEq(sel, lift.id)
                         THEN "ring-2 ring-offset-2 ring-slate-900" ELSE "",
     glyph           |-> Lookup(typeIcons, lift.type),
     name            |-> lift.name,
     waitText        |-> <<ToString(lift.waitTime), "min wait">>,
     difficultyBadge |-> lift.difficulty,
     difficultyClass |-> Lookup(difficultyColors, lift.difficulty),
     statusBadge     |-> lift.status,
     statusClass     |-> Lookup(statusColors, lift.status)]

\* The tree returned by one render of the component.
Home(ls, sel, open) ==
    [paths   |-> [i \in 1..Len(ls) |-> PathElement(ls[i], sel)],
     markers |-> [i \in 1..Len(ls) |-> Marker(ls[i], sel, open)],
     list    |-> [i \in 1..Len(ls) |-> ListEntry(ls[i], sel)]]

(* ------------------------------ actions -------------------------------- *)

\* Faulty variant: a click on the selected entry deselects it.
onClick_Toggle(sel, lift) == IF StrictEq(sel, lift.id) THEN NULL ELSE Some(lift.id)

\* Faulty variant: the handler stores the name instead of the id.
onClick_Name(sel, lift) == Some(lift.name)

\* onClick={() => setSelectedLift(lift.id)}: the value written to the state.
onClick(sel, lift) == Some(lift.id)

Init ==
    /\ lifts = SeedLifts
    /\ selectedLift = NULL
    /\ hoverOpen = {}
    /\ clicked = <<>>
    /\ view = Home(lifts, selectedLift, hoverOpen)

\* A click on the i-th list entry, followed by the re-render it triggers.
SelectLift(i) ==
    /\ Len(clicked) < MaxClicks
    /\ selectedLift' = onClick(selectedLift, lifts[i])
    /\ clicked' = Append(clicked, lifts[i].id)
    /\ view' = Home(lifts, selectedLift', hoverOpen)
    /\ UNCHANGED <<lifts, hoverOpen>>

\* Faulty variant: opening a hover card also selects its lift.
HoverEnter_Selects(i) ==
    /\ lifts[i].id \notin hoverOpen
    /\ hoverOpen' = hoverOpen \cup {lifts[i].id}
    /\ selectedLift' = Some(lifts[i].id)
    /\ view' = Home(lifts, selectedLift', hoverOpen')
    /\ UNCHANGED <<lifts, clicked>>

\* The pointer rests on the i-th marker: its hover card opens.
HoverEnter(i) ==
    /\ lifts[i].id \notin hoverOpen
    /\ hoverOpen' = hoverOpen \cup {lifts[i].id}
    /\ view' = Home(lifts, selectedLift, hoverOpen')
    /\ UNCHANGED <<lifts, selectedLift, clicked>>

\* Faulty variant: closing a hover card clears the selection.
HoverLeave_Clears(i) ==
    /\ lifts[i].id \in hoverOpen
    /\ hoverOpen' = hoverOpen \ {lifts[i].id}
    /\ selectedLift' = NULL
    /\ view' = Home(lifts, selectedLift', hoverOpen')
    /\ UNCHANGED <<lifts, clicked>>

\* The pointer has left the i-th marker: its hover card closes.
HoverLeave(i) ==
    /\ lifts[i].id \in hoverOpen
    /\ hoverOpen' = hoverOpen \ {lifts[i].id}
    /\ view' = Home(lifts, selectedLift, hoverOpen')
    /\ UNCHANGED <<lifts, selectedLift, clicked>>

Next ==
    \/ \E i \in 1..Len(lifts) : SelectLift(i)
    \/ \E i \in 1..Len(lifts) : HoverEnter(i)
    \/ \E i \in 1..Len(lifts) : HoverLeave(i)

Spec == Init /\ [][Next]_vars

(* ----------------- the view over any collection of Lifts --------------- *)

\* Map points the generalised routes are drawn from.
Points == {<<120, 150>>, <<180, 80>>}

Routes == UNION {[1..n -> Points] : n \in 1..MaxLen}

\* The seeded collection with one lift's status and route replaced.
StatusRouteVariants ==
    {[SeedLifts EXCEPT ![k] = [@ EXCEPT !.status = s, !.path = p]] :
        k \in 1..Len(SeedLifts), s \in Status, p \in Routes}

\* The seeded collection with one lift's type replaced.
TypeVariants ==
    {[SeedLifts EXCEPT ![k] = [@ EXCEPT !.type = t]] :
        k \in 1..Len(SeedLifts), t \in LiftType}

\* The seeded collection with one lift's difficulty replaced.
DifficultyVariants ==
    {[SeedLifts EXCEPT ![k] = [@ EXCEPT !.difficulty = d]] :
        k \in 1..Len(SeedLifts), d \in Difficulty}

LiftCollections == StatusRouteVariants \cup TypeVariants \cup DifficultyVariants

InitAny ==
    /\ lifts \in LiftCollections
    /\ selectedLift = NULL
    /\ hoverOpen = {}
    /\ clicked = <<>>
    /\ view = Home(lifts, selectedLift, hoverOpen)

SpecAny == InitAny /\ [][Next]_vars

(* ------------------------------ properties ----------------------------- *)

LiftIndex == 1..Len(lifts)

LastClicked == clicked[Len(clicked)]

\* The emphasized and the muted stroke of the path overlay.
EmphasizedLine(i) ==
    view.paths[i].stroke = "#0f172a" /\ view.paths[i].strokeWidth = 4

MutedLine(i) ==
    view.paths[i].stroke = "#64748b" /\ view.paths[i].strokeWidth = 2

RaisedMarker(i) == view.markers[i].scale = "scale-150 z-20"

BaselineMarker(i) == view.markers[i].scale = "scale-100 z-10"

HighlightedEntry(i) ==
    /\ view.list[i].variant = "default"
    /\ view.list[i].ring = "ring-2 ring-offset-2 ring-slate-900"

PlainEntry(i) == view.list[i].variant = "outline" /\ view.list[i].ring = ""

\* C1: once a list entry has been clicked, exactly one lift has the
\* emphasized stroke, it is the lift clicked last, and every other lift
\* (a previously selected one included) has the muted stroke.
C1_LastClickedIsSoleSelected ==
    clicked # <<>> =>
        /\ Cardinality({i \in LiftIndex : EmphasizedLine(i)}) = 1
        /\ \A i \in LiftIndex :
              /\ EmphasizedLine(i) <=> lifts[i].id = LastClicked
              /\ lifts[i].id # LastClicked => MutedLine(i)

C1_Witness ==
    /\ Len(clicked) >= 2
    /\ clicked[Len(clicked) - 1] # LastClicked
    /\ \E x, y \in LiftIndex :
          /\ lifts[x].id = clicked[Len(clicked) - 1]
          /\ lifts[y].id = LastClicked
          /\ MutedLine(x)
          /\ EmphasizedLine(y)

\* C2: the descriptor of a route of n >= 1 points is the move command to
\* point 1 followed by exactly n-1 line-to commands, the k-th of them to
\* point k+1, and nothing else.
C2_DescriptorVisitsRouteInOrder ==
    \A i \in LiftIndex :
        LET p == lifts[i].path
            d == view.paths[i].d
            n == Len(p)
        IN  n >= 1 =>
              /\ Len(d) = 3 * n
              /\ d[1] = "M"
              /\ d[2] = ToString(p[1][1])
              /\ d[3] = ToString(p[1][2])
              /\ \A k \in 2..n :
                    /\ d[3 * k - 2] = "L"
                    /\ d[3 * k - 1] = ToString(p[k][1])
                    /\ d[3 * k] = ToString(p[k][2])
              /\ Cardinality({j \in 1..Len(d) : d[j] = "L"}) = n - 1
              /\ Cardinality({j \in 1..Len(d) : d[j] = "M"}) = 1

C2_Witness ==
    \E i, j \in LiftIndex :
        /\ Len(lifts[i].path) = 1
        /\ view.paths[i].d = <<"M">> \o PointJoin(lifts[i].path[1])
        /\ Len(lifts[j].path) = 3
        /\ Len(view.paths[j].d) = 9
        /\ \E k \in LiftIndex :
              /\ Len(lifts[k].path) = 2
              /\ lifts[k].path[1] # lifts[k].path[2]
              /\ Len(view.paths[k].d) = 6

DashedIffClosed ==
    \A i \in LiftIndex :
        /\ view.paths[i].strokeDasharray = "5,5" <=> lifts[i].status = "closed"
        /\ view.paths[i].strokeDasharray = "none" <=> lifts[i].status # "closed"

\* C3: in every state a lift's stroke is dashed exactly when its status is
\* closed and solid otherwise, whatever the selection is, and no step (a
\* select-lift click in particular) changes the dash pattern of any lift.
C3_DashedIffClosedWhateverSelection ==
    /\ []DashedIffClosed
    /\ [][\A i \in LiftIndex :
            view'.paths[i].strokeDasharray = view.paths[i].strokeDasharray]_vars

C3_Witness ==
    \E i, j \in LiftIndex :
        /\ lifts[i].status = "closed"
        /\ selectedLift = Some(lifts[i].id)
        /\ Len(clicked) >= 2
        /\ clicked[1] = lifts[j].id
        /\ i # j
        /\ view.paths[i].strokeDasharray = "5,5"
        /\ view.paths[j].strokeDasharray = "none"

\* C4: a step that opens or closes a hover card leaves selectedLift as it
\* was, and selectedLift changes only in a step that is a list-entry click.
C4_OnlyClickWritesSelection ==
    [][/\ hoverOpen' # hoverOpen => selectedLift' = selectedLift
       /\ selectedLift' # selectedLift =>
             /\ Len(clicked') = Len(clicked) + 1
             /\ hoverOpen' = hoverOpen]_vars

C4_Witness ==
    \E i, j \in LiftIndex :
        /\ i # j
        /\ selectedLift = Some(lifts[i].id)
        /\ hoverOpen = {lifts[j].id}
        /\ view.markers[j].panel # <<>>
        /\ view.markers[i].panel = <<>>

\* C5: a click on the entry of the lift that is already selected leaves
\* selectedLift and the whole rendered tree (paths, markers, list) unchanged.
C5_SelectIsIdempotent ==
    [][(/\ Len(clicked') = Len(clicked) + 1
        /\ selectedLift = Some(clicked'[Len(clicked')]))
       => /\ selectedLift' = selectedLift
          /\ selectedLift' # NULL
          /\ view' = view]_vars

C5_Witness ==
    /\ Len(clicked) >= 2
    /\ clicked[Len(clicked) - 1] = LastClicked
    /\ selectedLift = Some(LastClicked)

\* C6: selectedLift starts as null, and once it holds an id no step sets it
\* back to null.
C6_SelectionNeverCleared ==
    /\ selectedLift = NULL
    /\ [][selectedLift # NULL => selectedLift' # NULL]_vars

C6_Witness ==
    /\ selectedLift # NULL
    /\ Len(clicked) = MaxClicks
    /\ hoverOpen # {}

\* C7: selectedLift is null or the id of a lift of the collection.
C7_SelectionIsNullOrKnownId ==
    \/ selectedLift = NULL
    \/ \E i \in LiftIndex : selectedLift = Some(lifts[i].id)

C7_Witness ==
    /\ selectedLift = Some(lifts[Len(lifts)].id)
    /\ Len(clicked) >= 2

\* C8: the collection is the seeded one in every state, its ids are pairwise
\* distinct, every route has at least one point (so every marker has its
\* anchor) and every wait time is a non-negative integer.
C8_SeedCollectionValid ==
    /\ lifts = SeedLifts
    /\ \A i, j \in LiftIndex : i # j => lifts[i].id # lifts[j].id
    /\ \A i \in LiftIndex :
          /\ Len(lifts[i].path) >= 1
          /\ lifts[i].waitTime \in Nat
          /\ view.markers[i].left = lifts[i].path[1][1]
          /\ view.markers[i].top = lifts[i].path[1][2]

C8_Witness ==
    /\ Len(clicked) = MaxClicks
    /\ hoverOpen = {lifts[i].id : i \in LiftIndex}
    /\ view.markers[1].left = 120
    /\ view.markers[1].top = 150

\* C9: the three display tables have an entry for every status, type and
\* difficulty (open is green, closed red, hold amber), so no colour, glyph
\* or badge lookup of a rendered lift yields undefined.
C9_DisplayTablesTotal ==
    /\ DOMAIN statusColors = Status
    /\ DOMAIN typeIcons = LiftType
    /\ DOMAIN difficultyColors = Difficulty
    /\ \A i \in LiftIndex :
          /\ view.markers[i].color =
                CASE lifts[i].status = "open"   -> "bg-emerald-500 text-white"
                  [] lifts[i].status = "closed" -> "bg-red-500 text-white"
                  [] lifts[i].status = "hold"   -> "bg-amber-500 text-white"
          /\ view.markers[i].glyph # UNDEFINED
          /\ view.list[i].glyph # UNDEFINED
          /\ view.list[i].difficultyClass # UNDEFINED
          /\ view.list[i].statusClass # UNDEFINED
          /\ \A k \in 1..Len(view.markers[i].panel) :
                /\ view.markers[i].panel[k].statusClass # UNDEFINED
                /\ view.markers[i].panel[k].difficultyClass # UNDEFINED

C9_Witness ==
    \E i, j \in LiftIndex :
        /\ lifts[i].status = "closed"
        /\ view.markers[i].color = "bg-red-500 text-white"
        /\ view.markers[i].panel # <<>>
        /\ lifts[j].type = "magic-carpet"
        /\ view.markers[j].glyph = "U+2728"

\* C10: for every lift the emphasized line, the raised marker and the
\* highlighted list entry occur together, exactly when the lift's id is
\* selectedLift; every other lift has the muted line, the baseline marker
\* and the plain entry, and with nothing selected no lift is emphasized.
C10_PresentationsAgreeOnSelection ==
    \A i \in LiftIndex :
        /\ EmphasizedLine(i) <=> selectedLift = Some(lifts[i].id)
        /\ RaisedMarker(i) <=> selectedLift = Some(lifts[i].id)
        /\ HighlightedEntry(i) <=> selectedLift = Some(lifts[i].id)
        /\ selectedLift # Some(lifts[i].id) =>
              MutedLine(i) /\ BaselineMarker(i) /\ PlainEntry(i)

C10_Witness ==
    \E i, j \in LiftIndex :
        /\ selectedLift = Some(lifts[i].id)
        /\ EmphasizedLine(i) /\ RaisedMarker(i) /\ HighlightedEntry(i)
        /\ i # j
        /\ MutedLine(j) /\ BaselineMarker(j) /\ PlainEntry(j)

====
